---- MODULE Spec2Model ----
(***************************************************************************)
(* Session lifecycle and client caches of the instagrapi-rest service.     *)
(*                                                                         *)
(* Three pieces of state are shared by the request handlers:               *)
(*   store    the TinyDB table '_default' of db.json (routers/auth.py,     *)
(*            dependencies/client.py), a sequence of session records;      *)
(*   clients  ClientStorage.clients, the cache of the /auth endpoints;     *)
(*   cache    _client_cache, the cache of the get_client dependency used   *)
(*            by the hashtag endpoints.                                    *)
(* The handlers of routers/auth.py are coroutines: they run on the event   *)
(* loop and give up control only at an await, so every handler but login   *)
(* is one atomic step; FlightSpec spells out the steps of one of them,     *)
(* with the loop that serialises them.  login awaits each platform attempt *)
(* and each backoff sleep.  get_client is a plain function: the framework  *)
(* runs it on a worker thread, so its steps interleave with everything     *)
(* else.                                                                   *)
(*                                                                         *)
(* The two caches never read each other and the login call keeps its own   *)
(* locals; they meet only in the store.  The model therefore has several   *)
(* specifications over the same variables and the same actions:            *)
(*   Spec            login requests and the handlers that write the store; *)
(*   CacheSpec       the /auth endpoints over ClientStorage, and logout;   *)
(*   ResolveSpec     get_client on two threads, and the store handlers;    *)
(*   SelectSpec      get_client over any table found at start-up;          *)
(*   MissSpec        the reads through both caches;                        *)
(*   LogoutSpec      logout with both caches filled;                       *)
(*   AfterLoginSpec  the logins, and resolutions after them;               *)
(*   LifecycleSpec   login, logout and implicit resolution;                *)
(*   HandlerSpec     the /auth endpoints that start with a get;            *)
(*   FlightSpec      rehydrations in flight on the loop and on threads;    *)
(*   AttemptSpec     login with the worker threads of its attempts;        *)
(*   FairAttemptSpec the same under the event loop's scheduling.           *)
(***************************************************************************)
EXTENDS Integers, Sequences, FiniteSets, TLC

VARIABLES
    store,      \* db.table('_default').all(): sequence of session records
    now,        \* datetime.now().timestamp()
    lg,         \* per login request: the locals of login / _try_login
    heap,       \* the Client objects ever cached: heap[c] is client c's .sessionid
    clients,    \* ClientStorage.clients: sessionid -> client (0: no entry)
    cache,      \* _client_cache: sessionid -> client (0: no entry)
    gc,         \* per worker thread: the locals of get_client
    last,       \* outcome of the latest atomic handler (history variable)
    got,        \* per sessionid: client the latest successful ClientStorage.get returned
    ev          \* per request on the event loop: the locals of ClientStorage.get

vars == <<store, now, lg, heap, clients, cache, gc, last, got, ev>>

---------------------------------------------------------------------------
(* Bounds *)

MaxStore == 2       \* records the store may hold
MaxTime == 2        \* the clock runs 0..MaxTime
MaxClients == 2     \* Client objects ever put in a cache
MaxInitStore == 2   \* records of a db.json found at start-up

Sids == {"s1", "s2"}            \* session tokens
NoSid == "none"                 \* None: no sessionid
Tasks == {"t1"}                 \* login requests in progress
Threads == {"r1", "r2"}         \* worker threads running get_client
Requests == {"q1", "q2"}        \* requests to /auth/settings/get being served
Times == 0..MaxTime

(* Program constants *)
max_retries == 2
HTTP_200 == 200
HTTP_401 == 401
UNCAUGHT_500 == 500
HTTP_503 == 503
HTTP_504 == 504

---------------------------------------------------------------------------
(* Session records.  The settings field is a JSON string; the model keeps  *)
(* what json.loads makes of it.                                            *)

\* a record without a 'settings' key
SettingsMissing == [k |-> "missing", has |-> FALSE, ll |-> 0]
\* a settings string json.loads rejects
SettingsBad == [k |-> "bad", has |-> FALSE, ll |-> 0]
\* a settings string that parses to an object without 'last_login'
SettingsNoKey == [k |-> "json", has |-> FALSE, ll |-> 0]

\* json.dumps({"last_login": t, "user_id": .., "username": ..})
JsonDumps(t) == [k |-> "json", has |-> TRUE, ll |-> t]

\* client.sessionid read before the client is authenticated
SessionDataStale(sid, t) == [sessionid |-> NoSid, settings |-> JsonDumps(t)]

\* the dict login and login_by_sessionid insert
SessionData(sid, t) == [sessionid |-> sid, settings |-> JsonDumps(t)]

---------------------------------------------------------------------------
(* login and _try_login (routers/auth.py)                                  *)

\* what one platform attempt can end in: client.login returns, wait_for
\* raises asyncio.TimeoutError, client.login raises ClientConnectionError,
\* or it raises anything else
Outcomes == {"ok", "timeout", "conn", "other"}

LoginIdle ==
    [pc |-> "idle", retry_count |-> 0, attempts |-> 0, sleeps |-> 0,
     hist |-> <<>>, result |-> "none", status |-> 0, sessionid |-> NoSid,
     abandoned |-> 0]

\* the except clauses that count a retry: asyncio.TimeoutError and
\* ClientConnectionError
Retryable(o) == o \in {"timeout", "conn"}

\* the retry counter never compared: no attempt is the last one
ExhaustedNever(retry_count) == FALSE

\* off by one: gives up one attempt early
ExhaustedEarly(retry_count) == retry_count >= max_retries

\* if retry_count > max_retries: return the error
Exhausted(retry_count) == retry_count > max_retries

\* while retry_count <= max_retries
LoopGuard(retry_count) == retry_count <= max_retries

\* One pass of the loop body once the awaited attempt ended in o: the value
\* _try_login returns ("none": it sleeps and goes round again).
TryLoginResult(retry_count, o) ==
    IF o = "ok" THEN "ok"
    ELSE IF Retryable(o)
         THEN IF Exhausted(retry_count + 1) THEN o ELSE "none"
         ELSE "other"

\* the two isinstance branches swapped
LoginStatusSwapped(result) ==
    IF result = "conn" THEN HTTP_504
    ELSE IF result = "timeout" THEN HTTP_503
    ELSE HTTP_401

\* the status login raises for the Exception _try_login returned
LoginStatus(result) ==
    IF result = "conn" THEN HTTP_503
    ELSE IF result = "timeout" THEN HTTP_504
    ELSE HTTP_401

\* client = Client(); result = await _try_login(...): retry_count = 0, the
\* loop is entered and the first attempt is awaited
LoginCall(t) ==
    /\ lg[t].pc = "idle"
    /\ LoopGuard(0)
    /\ lg' = [lg EXCEPT ![t] = [LoginIdle EXCEPT !.pc = "wait", !.attempts = 1]]
    /\ UNCHANGED <<store, now, heap, clients, cache, gc, last, got, ev>>

\* the awaited attempt ends in o; on success the platform issued token sid
AttemptOutcome(t, o, sid) ==
    /\ lg[t].pc = "wait"
    /\ LET l == lg[t]
           res == TryLoginResult(l.retry_count, o)
           rc == IF Retryable(o) THEN l.retry_count + 1 ELSE l.retry_count
           \* wait_for cancels the future it awaits, not the worker thread
           \* asyncio.to_thread started: after a timeout client.login runs on
           ab == IF o = "timeout" THEN l.abandoned + 1 ELSE l.abandoned
           l1 == [l EXCEPT !.retry_count = rc, !.hist = Append(l.hist, o),
                           !.result = res, !.abandoned = ab]
       IN  IF res = "none"
           THEN \* await asyncio.sleep(1)
                /\ lg' = [lg EXCEPT ![t] = [l1 EXCEPT !.pc = "sleep",
                                                      !.sleeps = l.sleeps + 1]]
                /\ UNCHANGED store
           ELSE IF res = "ok"
           THEN \* db.table('_default').insert(result); return LoginResponse
                /\ Len(store) < MaxStore
                /\ store' = Append(store, SessionData(sid, now))
                /\ lg' = [lg EXCEPT ![t] = [l1 EXCEPT !.pc = "done",
                                                      !.status = HTTP_200,
                                                      !.sessionid = sid]]
           ELSE \* raise HTTPException(status_code, detail)
                /\ lg' = [lg EXCEPT ![t] = [l1 EXCEPT !.pc = "done",
                                                      !.status = LoginStatus(res)]]
                /\ UNCHANGED store
    /\ UNCHANGED <<now, heap, clients, cache, gc, last, got, ev>>

\* the sleep is over: back to the loop head and the next attempt is awaited
Backoff(t) ==
    /\ lg[t].pc = "sleep"
    /\ LoopGuard(lg[t].retry_count)
    /\ lg' = [lg EXCEPT ![t].pc = "wait", ![t].attempts = lg[t].attempts + 1]
    /\ UNCHANGED <<store, now, heap, clients, cache, gc, last, got, ev>>

\* the response has been sent; the task serves the next request
LoginReturn(t) ==
    /\ lg[t].pc = "done"
    /\ lg' = [lg EXCEPT ![t] = LoginIdle]
    /\ UNCHANGED <<store, now, heap, clients, cache, gc, last, got, ev>>

\* a worker thread left behind by a timeout comes to the end of client.login;
\* nobody reads its result
AbandonedCallEnds(t) ==
    /\ lg[t].abandoned > 0
    /\ lg' = [lg EXCEPT ![t].abandoned = lg[t].abandoned - 1]
    /\ UNCHANGED <<store, now, heap, clients, cache, gc, last, got, ev>>

\* the wall clock advances
Tick ==
    /\ now < MaxTime
    /\ now' = now + 1
    /\ UNCHANGED <<store, lg, heap, clients, cache, gc, last, got, ev>>

---------------------------------------------------------------------------
(* The store handlers of routers/auth.py: login_by_sessionid and logout    *)

Keys == Sids \cup {NoSid}

LastNone ==
    [op |-> "none", sid |-> NoSid, status |-> 0, get |-> "none", client |-> 0,
     afterLogout |-> FALSE]

\* the history record of one atomic handler
Done(op, sid, status) ==
    [LastNone EXCEPT !.op = op, !.sid = sid, !.status = status]

\* stops at the first match
RECURSIVE RemoveFirstMatch(_, _)
RemoveFirstMatch(s, sid) ==
    IF s = <<>> THEN <<>>
    ELSE IF Head(s).sessionid = sid
         THEN Tail(s)
         ELSE <<Head(s)>> \o RemoveFirstMatch(Tail(s), sid)

\* db.table('_default').remove(lambda x: x.get('sessionid') == sid)
RECURSIVE RemoveMatching(_, _)
RemoveMatching(s, sid) ==
    IF s = <<>> THEN <<>>
    ELSE IF Head(s).sessionid = sid
         THEN RemoveMatching(Tail(s), sid)
         ELSE <<Head(s)>> \o RemoveMatching(Tail(s), sid)

\* login_by_sessionid that also hands its client to ClientStorage
LoginBySessionidSeeding(sid, o) ==
    /\ IF o = "ok"
       THEN /\ Len(store) < MaxStore
            /\ store' = Append(store, SessionData(sid, now))
            /\ Len(heap) < MaxClients
            /\ heap' = Append(heap, sid)
            /\ clients' = [clients EXCEPT ![sid] = Len(heap) + 1]
            /\ last' = Done("login_by_sessionid", sid, HTTP_200)
       ELSE /\ UNCHANGED <<store, heap, clients>>
            /\ last' = Done("login_by_sessionid", sid, HTTP_401)
    /\ UNCHANGED <<now, lg, cache, gc, got, ev>>

\* POST /auth/login/by_sessionid: the platform accepts the token or not
LoginBySessionid(sid, o) ==
    /\ IF o = "ok"
       THEN /\ Len(store) < MaxStore
            /\ store' = Append(store, SessionData(sid, now))
            /\ last' = Done("login_by_sessionid", sid, HTTP_200)
       ELSE /\ UNCHANGED store
            /\ last' = Done("login_by_sessionid", sid, HTTP_401)
    /\ UNCHANGED <<now, lg, heap, clients, cache, gc, got, ev>>

\* logout that also drops the cached client
LogoutEvicting(sid) ==
    /\ store' = RemoveMatching(store, sid)
    /\ clients' = [clients EXCEPT ![sid] = 0]
    /\ last' = [LastNone EXCEPT !.op = "logout", !.sid = sid, !.status = HTTP_200]
    /\ UNCHANGED <<now, lg, heap, cache, gc, got, ev>>

\* POST /auth/logout
Logout(sid) ==
    /\ store' = RemoveMatching(store, sid)
    /\ last' = Done("logout", sid, HTTP_200)
    /\ UNCHANGED <<now, lg, heap, clients, cache, gc, got, ev>>

---------------------------------------------------------------------------
(* ClientStorage (dependencies/__init__.py) and the handlers that use it   *)

NoneGot == [k \in Sids |-> [cl |-> 0, kept |-> FALSE]]

EvIdle == [pc |-> "idle", sid |-> NoSid]

\* if sessionid not in self.clients is false: get makes no platform call, so
\* there is no outcome to choose
NoCall(sid) == clients[sid] # 0

\* get that logs in again whatever is cached
StorageGetNoCache(sid, o) ==
    IF o = "ok"
    THEN [get |-> "miss_ok", cl |-> Len(heap) + 1,
          heap |-> Append(heap, sid),
          clients |-> [clients EXCEPT ![sid] = Len(heap) + 1]]
    ELSE [get |-> "miss_fail", cl |-> 0, heap |-> heap, clients |-> clients]

\* ClientStorage.get(sessionid) when login_by_sessionid would end in o:
\* how it ends, the client it returns, and the heap and the mapping after it
StorageGet(sid, o) ==
    IF clients[sid] # 0
    THEN [get |-> "hit", cl |-> clients[sid], heap |-> heap, clients |-> clients]
    ELSE IF o = "ok"
         THEN [get |-> "miss_ok", cl |-> Len(heap) + 1,
               heap |-> Append(heap, sid),
               clients |-> [clients EXCEPT ![sid] = Len(heap) + 1]]
         ELSE [get |-> "miss_fail", cl |-> 0, heap |-> heap, clients |-> clients]

\* ClientStorage.set(client): self.clients[client.sessionid] = client
StorageSet(map, hp, cl) == [map EXCEPT ![hp[cl]] = cl]

\* got after a get for sid that ended as g: a failed rehydration ends every
\* run of gets, a successful get starts or continues the run of sid
GotAfterGet(sid, g) ==
    IF g.get = "miss_fail" THEN NoneGot
    ELSE [got EXCEPT ![sid] = [cl |-> g.cl, kept |-> TRUE]]

\* got after clients became map: the run of a key whose entry was replaced
\* by another client is marked
GotAfterSet(gt, map) ==
    [k \in Sids |-> IF gt[k].cl # 0 /\ map[k] # gt[k].cl
                    THEN [gt[k] EXCEPT !.kept = FALSE] ELSE gt[k]]

DoneGet(op, sid, g, status) ==
    [Done(op, sid, status) EXCEPT
        !.get = g.get, !.client = g.cl,
        !.afterLogout = (last.op = "logout" /\ last.sid = sid)]

\* a handler of the shape  cl = clients.get(sessionid); return cl.<call>():
\* the exception of a failed get is not caught (500); the call itself
\* answers (200) or raises (500)
GetHandler(op, sid, o, callOk) ==
    LET g == StorageGet(sid, o) IN
    /\ NoCall(sid) => o = "ok"
    /\ g.get = "miss_fail" => callOk
    /\ g.get = "miss_ok" => Len(heap) < MaxClients
    /\ heap' = g.heap
    /\ clients' = g.clients
    /\ got' = GotAfterGet(sid, g)
    /\ last' = DoneGet(op, sid, g,
                       IF g.get # "miss_fail" /\ callOk THEN HTTP_200 ELSE UNCAUGHT_500)
    /\ UNCHANGED <<store, now, lg, cache, gc, ev>>

\* GET /auth/settings/get: cl.get_settings() reads the client, it cannot fail
SettingsGet(sid, o) == GetHandler("settings_get", sid, o, TRUE)

\* GET /auth/timeline_feed
TimelineFeed(sid, o, callOk) == GetHandler("timeline_feed", sid, o, callOk)

\* POST /auth/relogin: cl.relogin() drops the cookies and logs in again, so
\* the client has the session identifier newSid afterwards (NoSid: none),
\* whether the call answers or raises
AuthRelogin(sid, o, callOk, newSid) ==
    LET g == StorageGet(sid, o)
        hp == IF g.get # "miss_fail"
              THEN [g.heap EXCEPT ![g.cl] = newSid] ELSE g.heap
    IN
    /\ NoCall(sid) => o = "ok"
    /\ g.get = "miss_fail" => callOk /\ newSid = NoSid
    /\ g.get # "miss_fail" /\ callOk => newSid # NoSid
    /\ g.get = "miss_ok" => Len(heap) < MaxClients
    /\ heap' = hp
    /\ clients' = g.clients
    /\ got' = GotAfterGet(sid, g)
    /\ last' = DoneGet("relogin", sid, g,
                       IF g.get # "miss_fail" /\ callOk THEN HTTP_200 ELSE UNCAUGHT_500)
    /\ UNCHANGED <<store, now, lg, cache, gc, ev>>

\* handlers that were plain functions on worker threads: nobody waits
LoopFreeAlways(q) == TRUE

\* the event loop runs one coroutine at a time, and a coroutine that never
\* awaits keeps the loop until it returns: request q is served only when no
\* other handler is in the middle of its body
LoopFree(q) == \A p \in Requests \ {q} : ev[p].pc = "idle"

\* settings_get for request q, up to the platform call: ClientStorage.get
\* finds sessionid absent (line 28) and calls cl.login_by_sessionid
SettingsGetMiss(q, sid) ==
    /\ ev[q].pc = "idle"
    /\ LoopFree(q)
    /\ clients[sid] = 0
    /\ ev' = [ev EXCEPT ![q] = [pc |-> "login", sid |-> sid]]
    /\ UNCHANGED <<store, now, lg, heap, clients, cache, gc, last, got>>

\* the platform call of request q ends in o: the client is stored and the
\* handler returns its settings, or the exception leaves the handler
SettingsGetRehydrated(q, o) ==
    /\ ev[q].pc = "login"
    /\ LET sid == ev[q].sid
           g == IF o = "ok"
                THEN [get |-> "miss_ok", cl |-> Len(heap) + 1,
                      heap |-> Append(heap, sid),
                      clients |-> [clients EXCEPT ![sid] = Len(heap) + 1]]
                ELSE [get |-> "miss_fail", cl |-> 0, heap |-> heap,
                      clients |-> clients]
       IN  /\ o = "ok" => Len(heap) < MaxClients
           /\ heap' = g.heap
           /\ clients' = g.clients
           /\ got' = GotAfterGet(sid, g)
           /\ last' = DoneGet("settings_get", sid, g,
                              IF o = "ok" THEN HTTP_200 ELSE UNCAUGHT_500)
    /\ ev' = [ev EXCEPT ![q] = EvIdle]
    /\ UNCHANGED <<store, now, lg, cache, gc>>

\* settings_get for request q when the session is cached: no platform call,
\* the handler is over in one go
SettingsGetHit(q, sid) ==
    /\ ev[q].pc = "idle"
    /\ LoopFree(q)
    /\ NoCall(sid)
    /\ SettingsGet(sid, "ok")

\* POST /auth/login_by_sessionid: o = "ok": login_by_sessionid returns True,
\* "false": it returns False, "fail": it raises
AuthLoginBySessionid(sid, o) ==
    /\ IF o = "ok"
       THEN /\ Len(heap) < MaxClients
            /\ heap' = Append(heap, sid)
            /\ clients' = StorageSet(clients, heap', Len(heap) + 1)
            /\ got' = GotAfterSet(got, clients')
            /\ last' = [Done("auth_login_by_sessionid", sid, HTTP_200)
                            EXCEPT !.client = Len(heap) + 1]
       ELSE /\ UNCHANGED <<heap, clients, got>>
            /\ last' = Done("auth_login_by_sessionid", sid,
                            IF o = "false" THEN HTTP_200 ELSE UNCAUGHT_500)
    /\ UNCHANGED <<store, now, lg, cache, gc, ev>>

\* POST /auth/settings/set with a sessionid: the cached (or rehydrated)
\* client takes the settings, whose cookies carry the session identifier
\* newSid (NoSid: none); fail says where the handler raises, if it does:
\* "parse" json.loads(settings), "expose" cl.expose()
SettingsSetFor(sid, o, newSid, fail) ==
    LET g == StorageGet(sid, o)
        hp == IF g.get # "miss_fail" /\ fail # "parse"
              THEN [g.heap EXCEPT ![g.cl] = newSid] ELSE g.heap
        stored == g.get # "miss_fail" /\ fail = "none"
    IN
    /\ NoCall(sid) => o = "ok"
    /\ g.get = "miss_fail" => newSid = NoSid /\ fail = "none"
    /\ fail = "parse" => newSid = NoSid
    /\ g.get = "miss_ok" => Len(heap) < MaxClients
    /\ heap' = hp
    /\ clients' = IF stored THEN StorageSet(g.clients, hp, g.cl) ELSE g.clients
    /\ got' = GotAfterSet(GotAfterGet(sid, g), clients')
    /\ last' = DoneGet("settings_set", sid, g,
                       IF stored THEN HTTP_200 ELSE UNCAUGHT_500)
    /\ UNCHANGED <<store, now, lg, cache, gc, ev>>

\* clients.set(cl) moved before cl.set_settings: the client is stored under
\* the session identifier a new Client() has, which is None
SettingsSetNewEarly(newSid, fail) ==
    /\ IF fail = "none"
       THEN /\ Len(heap) < MaxClients
            /\ heap' = Append(heap, newSid)
            /\ clients' = [clients EXCEPT ![NoSid] = Len(heap) + 1]
            /\ got' = GotAfterSet(got, clients')
            /\ last' = [Done("settings_set", NoSid, HTTP_200)
                            EXCEPT !.client = Len(heap) + 1]
       ELSE /\ newSid = NoSid
            /\ UNCHANGED <<heap, clients, got>>
            /\ last' = Done("settings_set", NoSid, UNCAUGHT_500)
    /\ UNCHANGED <<store, now, lg, cache, gc, ev>>

\* POST /auth/settings/set with sessionid "": a new Client() takes the
\* settings and is stored under the session identifier it then has
SettingsSetNew(newSid, fail) ==
    /\ IF fail = "none"
       THEN /\ Len(heap) < MaxClients
            /\ heap' = Append(heap, newSid)
            /\ clients' = StorageSet(clients, heap', Len(heap) + 1)
            /\ got' = GotAfterSet(got, clients')
            /\ last' = [Done("settings_set", NoSid, HTTP_200)
                            EXCEPT !.client = Len(heap) + 1]
       ELSE /\ newSid = NoSid
            /\ UNCHANGED <<heap, clients, got>>
            /\ last' = Done("settings_set", NoSid, UNCAUGHT_500)
    /\ UNCHANGED <<store, now, lg, cache, gc, ev>>

---------------------------------------------------------------------------
(* get_client (dependencies/client.py), the dependency of the hashtag      *)
(* endpoints.  It runs on a worker thread.  Its steps are cut where it     *)
(* touches shared state: reading the table commutes with every cache       *)
(* access and the membership test commutes with every store write, so the  *)
(* read, the selection and the membership test make one step; the end of   *)
(* the platform call is local to the thread, so it makes one step with     *)
(* the cache write or delete that follows it.                              *)

GcIdle ==
    [pc |-> "idle", sel |-> 0, sid |-> NoSid,
     status |-> 0, detail |-> "none", client |-> 0]

\* the parse error swallowed
KeyNeverRaises(x) == FALSE

\* json.loads(x.get('settings', '{}')) raises
KeyRaises(x) == x.settings.k = "bad"

\* a default of 1 where the code has 0
KeyDefaultOne(x) ==
    IF x.settings.k = "json" /\ x.settings.has THEN x.settings.ll ELSE 1

\* json.loads(x.get('settings', '{}')).get('last_login', 0)
Key(x) ==
    IF x.settings.k = "json" /\ x.settings.has THEN x.settings.ll ELSE 0

\* the running best replaced also by an equal key: the last maximum wins
RECURSIVE MaxScanLast(_, _, _)
MaxScanLast(s, i, best) ==
    IF i > Len(s) THEN best
    ELSE MaxScanLast(s, i + 1, IF Key(s[i]) >= Key(s[best]) THEN i ELSE best)

\* the builtin max(sessions, key=Key) as an index: the running best is
\* replaced only by a strictly greater key
RECURSIVE MaxScan(_, _, _)
MaxScan(s, i, best) ==
    IF i > Len(s) THEN best
    ELSE MaxScan(s, i + 1, IF Key(s[i]) > Key(s[best]) THEN i ELSE best)

MaxIndex(s) == MaxScan(s, 2, 1)

\* the test of line 24 dropped: max() of an empty list raises ValueError,
\* which the except clause of line 33 reports
SelectNoEmptyTest(s) ==
    IF s = <<>> \/ \E i \in 1..Len(s) : KeyRaises(s[i])
    THEN [status |-> HTTP_401, detail |-> "Invalid session data", sel |-> 0, sid |-> NoSid]
    ELSE IF s[MaxIndex(s)].sessionid = NoSid
    THEN [status |-> HTTP_401, detail |-> "No sessionid found", sel |-> MaxIndex(s),
          sid |-> NoSid]
    ELSE [status |-> 0, detail |-> "none", sel |-> MaxIndex(s),
          sid |-> s[MaxIndex(s)].sessionid]

\* lines 23-39: what the selection ends in, for the table content s
Select(s) ==
    IF s = <<>>
    THEN [status |-> HTTP_401, detail |-> "No session found", sel |-> 0, sid |-> NoSid]
    ELSE IF \E i \in 1..Len(s) : KeyRaises(s[i])
    THEN [status |-> HTTP_401, detail |-> "Invalid session data", sel |-> 0, sid |-> NoSid]
    ELSE IF s[MaxIndex(s)].sessionid = NoSid
    THEN [status |-> HTTP_401, detail |-> "No sessionid found", sel |-> MaxIndex(s),
          sid |-> NoSid]
    ELSE [status |-> 0, detail |-> "none", sel |-> MaxIndex(s),
          sid |-> s[MaxIndex(s)].sessionid]

\* lines 23-42: read the table, select, look the sessionid up
GetClientStart(r) ==
    /\ gc[r].pc = "idle"
    /\ LET c == Select(store)
           g == [GcIdle EXCEPT !.sel = c.sel, !.sid = c.sid,
                               !.status = c.status, !.detail = c.detail]
       IN  gc' = [gc EXCEPT ![r] =
                     IF c.status # 0 THEN [g EXCEPT !.pc = "done"]
                     ELSE IF cache[c.sid] # 0 THEN [g EXCEPT !.pc = "hit"]
                     ELSE [g EXCEPT !.pc = "rehydrate"]]
    /\ UNCHANGED <<store, now, lg, heap, clients, cache, last, got, ev>>

\* line 43: return _client_cache[sessionid]; the KeyError of an entry gone
\* in the meantime is caught by nobody
GetClientHit(r) ==
    /\ gc[r].pc = "hit"
    /\ gc' = [gc EXCEPT ![r] =
                 IF cache[gc[r].sid] # 0
                 THEN [gc[r] EXCEPT !.pc = "done", !.status = HTTP_200,
                                    !.detail = "cached",
                                    !.client = cache[gc[r].sid]]
                 ELSE [gc[r] EXCEPT !.pc = "done", !.status = UNCAUGHT_500,
                                    !.detail = "KeyError"]]
    /\ UNCHANGED <<store, now, lg, heap, clients, cache, last, got, ev>>

\* the except clause without its del
EvictNothing(map, sid) == map

\* the cache after an except clause ran: the entry of sid, if any, is deleted
Evict(map, sid) == [map EXCEPT ![sid] = 0]

\* lines 46-60: client.login_by_sessionid(sessionid) ends in o: "ok", or
\* "keyerror" (a KeyError), or "fail" (any other exception)
GetClientRehydrated(r, o) ==
    /\ gc[r].pc = "rehydrate"
    /\ IF o = "ok"
       THEN /\ Len(heap) < MaxClients
            /\ heap' = Append(heap, gc[r].sid)
            /\ cache' = [cache EXCEPT ![gc[r].sid] = Len(heap) + 1]
            /\ gc' = [gc EXCEPT ![r].pc = "done", ![r].status = HTTP_200,
                                ![r].detail = "rehydrated",
                                ![r].client = Len(heap) + 1]
       ELSE /\ cache' = Evict(cache, gc[r].sid)
            /\ gc' = [gc EXCEPT ![r].pc = "done", ![r].status = HTTP_401,
                                ![r].detail = IF o = "keyerror"
                                              THEN "Session expired or invalid"
                                              ELSE "Authentication failed"]
            /\ UNCHANGED heap
    /\ UNCHANGED <<store, now, lg, clients, last, got, ev>>

\* the dependency has returned or raised; the thread takes the next request
GetClientReturn(r) ==
    /\ gc[r].pc = "done"
    /\ gc' = [gc EXCEPT ![r] = GcIdle]
    /\ UNCHANGED <<store, now, lg, heap, clients, cache, last, got, ev>>

---------------------------------------------------------------------------
(* Specifications *)

InitCommon ==
    /\ now = 0
    /\ lg = [t \in Tasks |-> LoginIdle]
    /\ heap = <<>>
    /\ clients = [k \in Keys |-> 0]
    /\ cache = [k \in Keys |-> 0]
    /\ gc = [r \in Threads |-> GcIdle]
    /\ last = LastNone
    /\ got = NoneGot
    /\ ev = [q \in Requests |-> EvIdle]

\* a new db.json: TinyDB starts with an empty table
Init == InitCommon /\ store = <<>>

RetryOutcomes == {"ok", "fail"}

\* the login subsystem: login requests, and the handlers that write the store
LoginNext ==
    \/ \E t \in Tasks : LoginCall(t)
    \/ \E t \in Tasks, o \in Outcomes, sid \in Sids : AttemptOutcome(t, o, sid)
    \/ \E t \in Tasks : Backoff(t)
    \/ \E t \in Tasks : LoginReturn(t)
    \/ \E sid \in Sids, o \in RetryOutcomes : LoginBySessionid(sid, o)
    \/ \E sid \in Sids : Logout(sid)
    \/ Tick

Spec == Init /\ [][LoginNext]_vars

GetOutcomes == {"ok", "fail"}
SeedOutcomes == {"ok", "false", "fail"}
SetFailures == {"none", "parse", "expose"}

\* the /auth endpoints over ClientStorage, and logout
CacheNext ==
    \/ \E sid \in Sids, o \in GetOutcomes : SettingsGet(sid, o)
    \/ \E sid \in Sids, o \in GetOutcomes, callOk \in BOOLEAN : TimelineFeed(sid, o, callOk)
    \/ \E sid \in Sids, o \in SeedOutcomes : AuthLoginBySessionid(sid, o)
    \/ \E sid \in Sids, o \in GetOutcomes, newSid \in Keys, fail \in SetFailures :
            SettingsSetFor(sid, o, newSid, fail)
    \/ \E newSid \in Keys, fail \in SetFailures : SettingsSetNew(newSid, fail)
    \/ \E sid \in Sids : Logout(sid)

\* ClientStorage never reads the table: the process starts on a db.json
\* that is new or holds the record of one earlier login
CacheInit ==
    /\ InitCommon
    /\ store \in {<<>>} \cup {<<SessionData(sid, 0)>> : sid \in Sids}

CacheSpec == CacheInit /\ [][CacheNext]_vars

RehydrateOutcomes == {"ok", "keyerror", "fail"}

\* the hashtag endpoints' dependency on its worker threads, and the
\* handlers that write the store
ResolveNext ==
    \/ \E r \in Threads : GetClientStart(r)
    \/ \E r \in Threads : GetClientHit(r)
    \/ \E r \in Threads, o \in RehydrateOutcomes : GetClientRehydrated(r, o)
    \/ \E r \in Threads : GetClientReturn(r)
    \/ \E sid \in Sids, o \in RetryOutcomes : LoginBySessionid(sid, o)
    \/ \E sid \in Sids : Logout(sid)

ResolveSpec == Init /\ [][ResolveNext]_vars

\* what a db.json found at start-up may hold: records with or without a
\* sessionid, with settings that are missing, unparseable, without
\* 'last_login', or as login wrote them
InitSettings ==
    {SettingsMissing, SettingsBad, SettingsNoKey} \cup {JsonDumps(t) : t \in Times}

InitRecords == [sessionid : Keys, settings : InitSettings]

SeqsUpTo(S, n) == UNION {[1..k -> S] : k \in 0..n}

SelectInit == InitCommon /\ store \in SeqsUpTo(InitRecords, MaxInitStore)

SelectThreads == {"r1"}

\* one request after the other resolves its client over a table that
\* nobody writes
SelectNext ==
    \/ \E r \in SelectThreads : GetClientStart(r)
    \/ \E r \in SelectThreads : GetClientHit(r)
    \/ \E r \in SelectThreads, o \in RehydrateOutcomes : GetClientRehydrated(r, o)
    \/ \E r \in SelectThreads : GetClientReturn(r)

SelectSpec == SelectInit /\ [][SelectNext]_vars

\* both caches with the operations that read through them, and the
\* endpoint that seeds ClientStorage
MissNext ==
    \/ \E sid \in Sids, o \in GetOutcomes : SettingsGet(sid, o)
    \/ \E sid \in Sids, o \in GetOutcomes, callOk \in BOOLEAN : TimelineFeed(sid, o, callOk)
    \/ \E sid \in Sids, o \in SeedOutcomes : AuthLoginBySessionid(sid, o)
    \/ \E r \in Threads : GetClientStart(r)
    \/ \E r \in Threads : GetClientHit(r)
    \/ \E r \in Threads, o \in RehydrateOutcomes : GetClientRehydrated(r, o)
    \/ \E r \in Threads : GetClientReturn(r)

MissSpec == CacheInit /\ [][MissNext]_vars

\* logout over any table found at start-up, with both caches filled by
\* the seeding endpoint and by implicit resolution
LogoutNext ==
    \/ \E sid \in Sids : Logout(sid)
    \/ \E sid \in Sids, o \in SeedOutcomes : AuthLoginBySessionid(sid, o)
    \/ SelectNext

\* records as login wrote them, and records without a sessionid
LogoutRecords == [sessionid : Keys, settings : {JsonDumps(0)}]

LogoutInit == InitCommon /\ store \in SeqsUpTo(LogoutRecords, MaxInitStore)

LogoutSpec == LogoutInit /\ [][LogoutNext]_vars

---------------------------------------------------------------------------
(* Claims about login (checked under Spec) *)

AllRetryable(h) == \A i \in 1..Len(h) : h[i] \in {"timeout", "conn"}

\* C1: one login call makes at most 3 attempts; attempt k+1 is started only
\* after attempt k ended in a timeout or a connectivity failure and only
\* while fewer than 3 were made; an attempt ending in any other way ends
\* the call; when every attempt fails retryably exactly 3 are made, with
\* one backoff wait between consecutive attempts and none after the last.
C1_BoundedRetry ==
    \A t \in Tasks :
        LET l == lg[t] IN
        /\ l.attempts <= 3
        /\ l.pc = "wait" => Len(l.hist) = l.attempts - 1
        /\ l.pc \in {"sleep", "done"} => Len(l.hist) = l.attempts
        /\ \A k \in 2..l.attempts : l.hist[k - 1] \in {"timeout", "conn"}
        /\ \A i \in 1..Len(l.hist) :
              l.hist[i] \in {"ok", "other"} => l.pc = "done" /\ i = l.attempts
        /\ l.pc = "sleep" => l.attempts < 3 /\ l.sleeps = l.attempts
        /\ l.pc \in {"wait", "done"} => l.sleeps = l.attempts - 1
        /\ l.pc = "done" /\ AllRetryable(l.hist) => l.attempts = 3 /\ l.sleeps = 2

\* a call that timed out, failed to connect and timed out again has ended
C1_Witness ==
    \E t \in Tasks :
        /\ lg[t].pc = "done"
        /\ lg[t].hist = <<"timeout", "conn", "timeout">>
        /\ lg[t].attempts = 3 /\ lg[t].sleeps = 2

\* C8: a failed login surfaces 503 when its last attempt was a connectivity
\* failure and 504 when it was a timeout, in both cases after 3 attempts,
\* and 401 when it failed in any other way, whatever the earlier attempts.
C8_SurfacedClass ==
    \A t \in Tasks :
        LET l == lg[t] IN
        l.pc = "done" =>
            LET f == l.hist[Len(l.hist)] IN
            /\ l.status \in {200, 401, 503, 504}
            /\ l.status = 200 <=> f = "ok"
            /\ l.status = 503 <=> f = "conn"
            /\ l.status = 504 <=> f = "timeout"
            /\ l.status = 401 <=> f = "other"
            /\ l.status \in {503, 504} => Len(l.hist) = 3

\* two timeouts and then a connectivity failure surfaced as 503
C8_Witness ==
    \E t \in Tasks :
        /\ lg[t].pc = "done"
        /\ lg[t].hist = <<"timeout", "timeout", "conn">>
        /\ lg[t].status = 503

\* store' is store with one record of session sid appended
Appended(sid) ==
    /\ Len(store') = Len(store) + 1
    /\ SubSeq(store', 1, Len(store)) = store
    /\ store'[Len(store')].sessionid = sid

\* C3: the step that ends a login or a login_by_sessionid call with status
\* ok appends exactly one record, whose sessionid is the one returned; the
\* step that ends it in failure, and every earlier step of the call, leaves
\* the store as it is.
C3_PersistOnlyOnSuccess ==
    [][/\ \A t \in Tasks :
            lg'[t] # lg[t] =>
                IF lg'[t].pc = "done" /\ lg'[t].status = 200
                THEN lg'[t].sessionid \in Sids /\ Appended(lg'[t].sessionid)
                ELSE store' = store
       /\ (lg' = lg /\ now' = now /\ last'.op = "login_by_sessionid") =>
                IF last'.status = 200
                THEN (store' # store \/ last' # last) => Appended(last'.sid)
                ELSE store' = store
      ]_vars

\* a login that succeeded at its second attempt, its record the newest
C3_Witness ==
    \E t \in Tasks :
        /\ lg[t].pc = "done" /\ lg[t].status = 200 /\ Len(lg[t].hist) = 2
        /\ store # <<>> /\ store[Len(store)].sessionid = lg[t].sessionid

---------------------------------------------------------------------------
(* Claims about implicit resolution (checked under SelectSpec, where the   *)
(* table is the one found at start-up and stays as it is)                  *)

Unparseable(x) == x.settings.k = "bad"
NoSettings(x) == x.settings.k = "missing"
HasLastLogin(x) == x.settings.k = "json" /\ x.settings.has

\* the recency the specification gives a record: its last_login, and 0
\* when it has none
LastLogin(x) == IF HasLastLogin(x) THEN x.settings.ll ELSE 0

\* record i has the greatest last_login and is the first to have it
FirstMax(i) ==
    /\ i \in 1..Len(store)
    /\ \A j \in 1..Len(store) : LastLogin(store[j]) <= LastLogin(store[i])
    /\ \A j \in 1..(i - 1) : LastLogin(store[j]) < LastLogin(store[i])

Resolved(r) == gc[r].pc # "idle"

\* the client handed back, if one is, is the one of the selected record
HandsBackSelected(r) ==
    gc[r].status = 200 =>
        /\ gc[r].client \in 1..Len(heap)
        /\ heap[gc[r].client] = store[gc[r].sel].sessionid
        /\ gc[r].sid = store[gc[r].sel].sessionid

C10_Original ==
    \A r \in SelectThreads :
        Resolved(r) =>
            \A j \in 1..Len(store) :
                (/\ NoSettings(store[j]) \/ Unparseable(store[j])
                 /\ \E i \in 1..Len(store) :
                        i # j /\ HasLastLogin(store[i]) /\ store[i].settings.ll >= 0)
                    => gc[r].sel # j

\* C10, amended: a record with missing or unparseable settings is not the
\* selected one whenever another record has a parseable last_login > 0, or
\* has a parseable last_login = 0 and stands before it in the table.
C10_ExcludedByPositive ==
    \A r \in SelectThreads :
        Resolved(r) =>
            \A j \in 1..Len(store) :
                (/\ NoSettings(store[j]) \/ Unparseable(store[j])
                 /\ \E i \in 1..Len(store) :
                        /\ i # j /\ HasLastLogin(store[i])
                        /\ \/ store[i].settings.ll > 0
                           \/ store[i].settings.ll = 0 /\ i < j)
                    => gc[r].sel # j

\* a record without settings stands first, and the record with
\* last_login 1 after it was selected
C10_Witness ==
    \E r \in SelectThreads :
        /\ Resolved(r) /\ gc[r].sel = 2 /\ Len(store) = 2
        /\ NoSettings(store[1])
        /\ HasLastLogin(store[2]) /\ store[2].settings.ll = 1

---------------------------------------------------------------------------
(* Claims about the two caches *)

\* the step is one ClientStorage.get for last'.sid
StorageGetStep == gc' = gc /\ last'.get # "none"

\* C4 (checked under MissSpec): the step in which a rehydration fails
\* leaves no entry for its sessionid and touches no other entry, in
\* ClientStorage and in _client_cache; and a get returns a stored client
\* only when an entry is there, so the get that follows a failure logs in
\* again.
C4_NoEntryAfterFailedRehydration ==
    [][/\ \A r \in Threads :
            (gc[r].pc = "rehydrate" /\ gc'[r].status = 401) =>
                /\ cache'[gc[r].sid] = 0
                /\ \A k \in Keys \ {gc[r].sid} : cache'[k] = cache[k]
       /\ \A r \in Threads :
            (gc[r].pc = "idle" /\ gc'[r].pc \in {"hit", "rehydrate"}) =>
                (gc'[r].pc = "hit" <=> cache[gc'[r].sid] # 0)
       /\ (StorageGetStep /\ last'.get = "miss_fail") =>
                clients' = clients /\ clients'[last'.sid] = 0
       /\ (StorageGetStep /\ last.get = "miss_fail" /\ last.sid = last'.sid) =>
                last'.get \in {"miss_ok", "miss_fail"}
      ]_vars

\* a get of ClientStorage and a resolution through _client_cache have both
\* failed to rehydrate, and neither cache holds an entry for the session
C4_Witness ==
    /\ last.get = "miss_fail" /\ clients[last.sid] = 0
    /\ \E r \in Threads :
          /\ gc[r].pc = "done" /\ gc[r].status = 401
          /\ gc[r].detail = "Authentication failed"
          /\ cache[gc[r].sid] = 0

\* C5 as stated (checked under CacheSpec): a successful get for a session
\* that an earlier get already served, no rehydration having failed since,
\* returns that same client and makes no login-by-session call, whatever
\* ran in between.
C5_Original ==
    [][(StorageGetStep /\ last'.get # "miss_fail" /\ got[last'.sid].cl # 0) =>
            last'.get = "hit" /\ last'.client = got[last'.sid].cl
      ]_vars

\* C5, amended: such a get makes no login-by-session call, and it returns
\* the same client unless a set (the seeding endpoint, or setSettings) put
\* another client under that session id in between.
C5_SameClientUnlessReplaced ==
    [][(StorageGetStep /\ last'.get # "miss_fail" /\ got[last'.sid].cl # 0) =>
            /\ last'.get = "hit"
            /\ got[last'.sid].kept => last'.client = got[last'.sid].cl
      ]_vars

\* a second get returned the client of the first, after another client was
\* cached for the other session
C5_Witness ==
    /\ last.op = "timeline_feed" /\ last.get = "hit"
    /\ got[last.sid].kept /\ got[last.sid].cl = last.client
    /\ Len(heap) = 2 /\ \E k \in Sids : k # last.sid /\ clients[k] \notin {0, last.client}

\* C6 (checked under LogoutSpec): logout(id) leaves exactly the records
\* whose sessionid is not id, in their order, answers ok whether or not a
\* record matched, does nothing when it is applied a second time, and
\* leaves both caches as they are.
C6_LogoutRemovesMatching ==
    [][(gc' = gc /\ last'.op = "logout") =>
            /\ store' = SelectSeq(store, LAMBDA x : x.sessionid # last'.sid)
            /\ last'.status = 200
            /\ clients' = clients /\ cache' = cache /\ heap' = heap
            /\ (last.op = "logout" /\ last.sid = last'.sid) => store' = store
      ]_vars

\* the session that implicit resolution cached and the seeding endpoint
\* cached has been logged out: its records are gone, another record and
\* both cache entries are still there
C6_Witness ==
    /\ last.op = "logout" /\ last.status = 200
    /\ cache[last.sid] # 0 /\ clients[last.sid] # 0
    /\ store # <<>> /\ \A i \in 1..Len(store) : store[i].sessionid # last.sid

\* C7 as stated (checked under CacheSpec): the get for id that follows
\* logout(id) logs in by session again.
C7_Original == last.afterLogout => last.get \in {"miss_ok", "miss_fail"}

\* C7, amended: logout leaves ClientStorage as it is, and the get for id
\* that follows logout(id) logs in by session again exactly when no client
\* is cached for id; a cached client is handed back as it is.
C7_FreshOnlyIfUncached ==
    [][/\ (last'.op = "logout" /\ last' # last) => clients' = clients /\ heap' = heap
       /\ (StorageGetStep /\ last'.afterLogout) =>
            /\ last'.get = "hit" <=> clients[last'.sid] # 0
            /\ last'.get = "hit" => last'.client = clients[last'.sid]
      ]_vars

\* the record of a session was removed by logout and the get that followed
\* returned the client cached before
C7_Witness ==
    /\ last.afterLogout /\ last.get = "hit" /\ last.status = 200
    /\ store = <<>> /\ got[last.sid].cl = last.client

---------------------------------------------------------------------------
(* Claims about what a login leaves in the caches (checked under           *)
(* AfterLoginSpec)                                                         *)

\* the two logins, and after them an explicit resolution through
\* ClientStorage and an implicit one through get_client
AfterLoginNext ==
    \/ \E t \in Tasks : LoginCall(t)
    \/ \E t \in Tasks, o \in Outcomes, sid \in Sids : AttemptOutcome(t, o, sid)
    \/ \E t \in Tasks : Backoff(t)
    \/ \E t \in Tasks : LoginReturn(t)
    \/ \E sid \in Sids, o \in RetryOutcomes : LoginBySessionid(sid, o)
    \/ \E sid \in Sids, o \in GetOutcomes : SettingsGet(sid, o)
    \/ SelectNext

AfterLoginSpec == Init /\ [][AfterLoginNext]_vars

\* the step in which login answers 200 for task t
LoginOkStep(t) ==
    lg[t].pc = "wait" /\ lg'[t].pc = "done" /\ lg'[t].status = HTTP_200

\* a step of the handler login_by_sessionid
LoginBySessionidStep ==
    lg' = lg /\ gc' = gc /\ last'.op = "login_by_sessionid"

CachesUnchanged == heap' = heap /\ clients' = clients /\ cache' = cache

\* C11 as stated: once login or login_by_sessionid answered ok with session
\* id s, a cache holds a client for s.
C11_Original ==
    /\ \A t \in Tasks :
          lg[t].pc = "done" /\ lg[t].status = HTTP_200 =>
              clients[lg[t].sessionid] # 0 \/ cache[lg[t].sessionid] # 0
    /\ last.op = "login_by_sessionid" /\ last.status = HTTP_200 =>
              clients[last.sid] # 0 \/ cache[last.sid] # 0

\* C11 (amended): a successful login or login_by_sessionid appends a record
\* to the store and leaves both caches as they were; the explicit
\* resolution of s that follows a login_by_sessionid of s rehydrates when
\* no client for s was cached before, and so does an implicit resolution
\* that selects a session without an entry.
C11_LoginSeedsNoCache ==
    [][ /\ \A t \in Tasks :
              LoginOkStep(t) =>
                  /\ CachesUnchanged
                  /\ store' = Append(store, SessionData(lg'[t].sessionid, now))
        /\ LoginBySessionidStep => CachesUnchanged
        /\ ( /\ last.op = "login_by_sessionid" /\ last.status = HTTP_200
             /\ last'.op = "settings_get" /\ last'.sid = last.sid
             /\ clients[last.sid] = 0 )
           => last'.get \in {"miss_ok", "miss_fail"}
        /\ \A r \in SelectThreads :
              ( /\ gc[r].pc = "idle" /\ gc'[r].pc # "idle"
                /\ gc'[r].status = 0 /\ cache[gc'[r].sid] = 0 )
              => gc'[r].pc = "rehydrate"
      ]_vars

\* login answered ok with a session id, no cache holds a client for it, and
\* a request resolving that session is rehydrating
C11_Witness ==
    \E t \in Tasks, r \in SelectThreads :
        /\ lg[t].pc = "done" /\ lg[t].status = HTTP_200
        /\ clients[lg[t].sessionid] = 0 /\ cache[lg[t].sessionid] = 0
        /\ gc[r].pc = "rehydrate" /\ gc[r].sid = lg[t].sessionid

---------------------------------------------------------------------------
(* Claims about settings_set (checked under CacheSpec)                     *)

\* a step of settings_set called with sessionid ""
SettingsSetNewStep == gc' = gc /\ last'.op = "settings_set" /\ last'.sid = NoSid

\* C12: settings_set with an empty sessionid leaves the store unchanged and
\* looks nothing up in the cache; when it returns, a new client is stored
\* under the session identifier it has after the settings were applied,
\* and every other entry and every other client is as before; when it
\* raises, no entry changes.
C12_SetNewStoresOneEntry ==
    [][ SettingsSetNewStep =>
          /\ store' = store /\ cache' = cache
          /\ last'.get = "none"
          /\ last'.status = HTTP_200 =>
                LET c == last'.client IN
                /\ c = Len(heap) + 1 /\ Len(heap') = c
                /\ \A d \in 1..Len(heap) : heap'[d] = heap[d]
                /\ clients'[heap'[c]] = c
                /\ \A k \in Keys : k # heap'[c] => clients'[k] = clients[k]
          /\ last'.status # HTTP_200 => heap' = heap /\ clients' = clients
      ]_vars

\* settings_set with an empty sessionid has stored its new client over the
\* entry of another client, while the table holds the record of another
\* session
C12_Witness ==
    /\ last.op = "settings_set" /\ last.sid = NoSid /\ last.status = HTTP_200
    /\ last.client = 2
    /\ \E k \in Sids :
          /\ heap[2] = k /\ heap[1] = k /\ clients[k] = 2
          /\ \E j \in Sids \ {k} : store # <<>> /\ store[1].sessionid = j

---------------------------------------------------------------------------
(* Claims about the life of one session (checked under LifecycleSpec)      *)

\* login, logout, and requests that resolve their client implicitly
LifecycleNext ==
    \/ \E t \in Tasks : LoginCall(t)
    \/ \E t \in Tasks, o \in Outcomes, sid \in Sids : AttemptOutcome(t, o, sid)
    \/ \E t \in Tasks : Backoff(t)
    \/ \E t \in Tasks : LoginReturn(t)
    \/ \E sid \in Sids : Logout(sid)
    \/ SelectNext

LifecycleSpec == Init /\ [][LifecycleNext]_vars

\* the step in which get_client on thread r reads the table and selects
SelectStep(r) == gc[r].pc = "idle" /\ gc'[r].pc # "idle"

\* a step of the handler logout
LogoutStep == lg' = lg /\ gc' = gc /\ last'.op = "logout" /\ last' # last

\* C13: a successful login on an empty store leaves exactly one record,
\* that of the session it returns; get_client fails with 'No session
\* found' exactly when the table it reads is empty, whatever is cached, and
\* over a one-record table it resolves that record's session; a client it
\* hands back belongs to the session it selected; logout of the only
\* session empties the store.
C13_NoSessionIffEmpty ==
    [][ /\ \A t \in Tasks :
              LoginOkStep(t) /\ store = <<>> =>
                  /\ Len(store') = 1
                  /\ store'[1].sessionid = lg'[t].sessionid
        /\ \A r \in SelectThreads :
              SelectStep(r) =>
                  /\ gc'[r].detail = "No session found" <=> store = <<>>
                  /\ store = <<>> => gc'[r].pc = "done" /\ gc'[r].status = HTTP_401
                  /\ Len(store) = 1 =>
                        /\ gc'[r].sid = store[1].sessionid
                        /\ gc'[r].pc \in {"hit", "rehydrate"}
        /\ \A r \in SelectThreads :
              gc[r].pc # "done" /\ gc'[r].pc = "done" /\ gc'[r].status = HTTP_200 =>
                  /\ gc'[r].client # 0
                  /\ heap'[gc'[r].client] = gc[r].sid
        /\ LogoutStep /\ Len(store) = 1 /\ store[1].sessionid = last'.sid =>
              store' = <<>>
      ]_vars

\* the session a login opened was resolved and cached, then logged out: the
\* store is empty, the client is still cached, and the next implicit
\* resolution has failed with 'No session found'
C13_Witness ==
    \E r \in SelectThreads :
        /\ store = <<>>
        /\ last.op = "logout" /\ cache[last.sid] # 0
        /\ gc[r].pc = "done" /\ gc[r].status = HTTP_401
        /\ gc[r].detail = "No session found"

---------------------------------------------------------------------------
(* Claims about how a failure surfaces (checked under HandlerSpec)         *)

\* the /auth endpoints that start with clients.get(sessionid)
HandlerNext ==
    \/ \E sid \in Sids, o \in GetOutcomes : SettingsGet(sid, o)
    \/ \E sid \in Sids, o \in GetOutcomes, callOk \in BOOLEAN : TimelineFeed(sid, o, callOk)
    \/ \E sid \in Sids, o \in GetOutcomes, callOk \in BOOLEAN, newSid \in Keys :
            AuthRelogin(sid, o, callOk, newSid)
    \/ \E sid \in Sids, o \in GetOutcomes, newSid \in Keys, fail \in SetFailures :
            SettingsSetFor(sid, o, newSid, fail)

HandlerSpec == CacheInit /\ [][HandlerNext]_vars

\* C14: every handler that fails ends with a classified status, and a
\* failed rehydration inside settings_get, timeline_feed, relogin or
\* settings_set with a sessionid ends with 401, never with an exception
\* nobody caught.
C14_FailuresClassified ==
    /\ last.status \in {0, HTTP_200, HTTP_401, HTTP_503, HTTP_504}
    /\ last.get = "miss_fail" => last.status = HTTP_401

---------------------------------------------------------------------------
(* Claims about rehydrations in flight (checked under FlightSpec)          *)

\* requests to /auth/settings/get on the event loop and requests to the
\* hashtag endpoints on the worker threads, over a table nobody writes
FlightNext ==
    \/ \E q \in Requests, sid \in Sids : SettingsGetMiss(q, sid)
    \/ \E q \in Requests, o \in GetOutcomes : SettingsGetRehydrated(q, o)
    \/ \E q \in Requests, sid \in Sids : SettingsGetHit(q, sid)
    \/ \E r \in Threads : GetClientStart(r)
    \/ \E r \in Threads : GetClientHit(r)
    \/ \E r \in Threads, o \in RehydrateOutcomes : GetClientRehydrated(r, o)
    \/ \E r \in Threads : GetClientReturn(r)

FlightSpec == CacheInit /\ [][FlightNext]_vars

\* C15 as stated: in both caches, while one get is rehydrating a session
\* that is not cached, a second get for the same session can find the
\* entry absent and start a login of its own.
C15_Original ==
    /\ \A q \in Requests, p \in Requests, sid \in Sids :
          ( /\ q # p /\ ev[q].pc = "login" /\ ev[q].sid = sid
            /\ ev[p].pc = "idle" /\ clients[sid] = 0 )
          => ENABLED SettingsGetMiss(p, sid)
    /\ \A r \in Threads, u \in Threads :
          ( /\ r # u /\ gc[r].pc = "rehydrate"
            /\ gc[u].pc = "idle" /\ cache[gc[r].sid] = 0
            /\ Select(store).sid = gc[r].sid )
          => ENABLED (GetClientStart(u) /\ gc'[u].pc = "rehydrate")

\* C15 (amended): in the cache of the hashtag operations a second get for
\* a session can start its own login while the first is still rehydrating
\* it, and each login that succeeds writes the entry, replacing what is
\* there; in ClientStorage at most one rehydration is in flight at any
\* time, and its write finds the entry still absent.
C15_OneFlightOnLoop ==
    [][ /\ \A r \in Threads, u \in Threads :
              ( /\ r # u /\ gc[r].pc = "rehydrate"
                /\ gc[u].pc = "idle" /\ cache[gc[r].sid] = 0
                /\ Select(store).sid = gc[r].sid
                /\ gc'[u].pc # "idle" )
              => gc'[u].pc = "rehydrate" /\ gc'[u].sid = gc[r].sid
        /\ \A r \in Threads :
              gc[r].pc = "rehydrate" /\ gc'[r].status = HTTP_200 =>
                  /\ cache'[gc[r].sid] = Len(heap) + 1
                  /\ gc'[r].client = Len(heap) + 1
        /\ \A q \in Requests, p \in Requests :
              q # p => ~(ev'[q].pc = "login" /\ ev'[p].pc = "login")
        /\ \A q \in Requests :
              ev[q].pc = "login" /\ ev'[q].pc = "idle" => clients[ev[q].sid] = 0
      ]_vars

\* two requests rehydrated the same session at the same time: both logins
\* succeeded, and the cache holds the client of the one that wrote last
C15_Witness ==
    \E sid \in Sids :
        /\ gc["r1"].pc = "done" /\ gc["r1"].detail = "rehydrated"
        /\ gc["r2"].pc = "done" /\ gc["r2"].detail = "rehydrated"
        /\ gc["r1"].sid = sid /\ gc["r2"].sid = sid
        /\ gc["r1"].client = 1 /\ gc["r2"].client = 2
        /\ cache[sid] = 2
        /\ \E q \in Requests : ev[q].pc = "login" /\ ev[q].sid = sid

---------------------------------------------------------------------------
(* Claims about the keys of ClientStorage (checked under CacheSpec)        *)

\* every entry of map holds a client whose sessionid is the entry's key,
\* and no client is held by two entries
KeyedBySession(map) ==
    \A k \in Keys :
        map[k] # 0 =>
            /\ heap[map[k]] = k
            /\ \A j \in Keys \ {k} : map[j] # map[k]

\* C16: in every reachable state each cached client's current session
\* identifier equals the key it is stored under and no client is stored
\* under two keys, whatever get, set and settings_set calls were made.
C16_KeyedBySession == KeyedBySession(clients) /\ KeyedBySession(cache)

---------------------------------------------------------------------------
(* Claims about the records of the store (checked under Spec)              *)

\* C17: sessionid is a unique key of the store: whatever login,
\* login_by_sessionid and logout calls were made, no two stored records
\* have the same sessionid.
C17_UniqueSessionId ==
    \A i \in 1..Len(store), j \in 1..Len(store) :
        i # j => store[i].sessionid # store[j].sessionid

---------------------------------------------------------------------------
(* Claims about concurrent implicit resolutions (checked under ResolveSpec) *)

\* C18: in _client_cache a failed rehydration of a session by one request
\* never removes the entry another request stored for that session after
\* rehydrating it successfully: an entry, once there, stays, under every
\* interleaving of the resolutions.
C18_CachedStaysCached ==
    [][ \A s \in Sids : cache[s] # 0 => cache'[s] # 0 ]_vars

---------------------------------------------------------------------------
(* Claims about the platform calls of one login (checked under             *)
(* AttemptSpec)                                                            *)

\* login requests, with the worker threads their attempts run on
AttemptNext ==
    \/ \E t \in Tasks : LoginCall(t)
    \/ \E t \in Tasks, o \in Outcomes, sid \in Sids : AttemptOutcome(t, o, sid)
    \/ \E t \in Tasks : Backoff(t)
    \/ \E t \in Tasks : LoginReturn(t)
    \/ \E t \in Tasks : AbandonedCallEnds(t)
    \/ \E sid \in Sids : Logout(sid)

AttemptSpec == Init /\ [][AttemptNext]_vars

\* the calls of client.login running on the client of login request t: the
\* one being awaited, and those a timeout left behind
Running(t) == (IF lg[t].pc = "wait" THEN 1 ELSE 0) + lg[t].abandoned

\* C19: within one login call at most one client.login runs on the call's
\* client at any time; the call of an attempt given up on timeout is over
\* when the next attempt starts and when login returns.
C19_OneCallRunning ==
    \A t \in Tasks :
        /\ Running(t) <= 1
        /\ lg[t].pc = "done" => lg[t].abandoned = 0

---------------------------------------------------------------------------
(* Claims about the termination of login (checked under FairAttemptSpec)   *)

\* The event loop runs what is ready: the timer of wait_for fires after 30
\* seconds whatever the worker thread does, so an awaited attempt ends, and
\* the timer of asyncio.sleep(1) fires, so a backoff ends.  Nothing is
\* assumed of the platform: a worker thread may run for ever.
AttemptFairness ==
    \A t \in Tasks :
        /\ WF_vars(\E o \in Outcomes, sid \in Sids : AttemptOutcome(t, o, sid))
        /\ WF_vars(Backoff(t))

FairAttemptSpec == Init /\ [][AttemptNext]_vars /\ AttemptFairness

\* C20: every login call eventually returns ok or fails with 401, 503 or
\* 504, also when the platform answers no attempt.
C20_LoginTerminates ==
    \A t \in Tasks :
        lg[t].pc \in {"wait", "sleep"} ~>
            (lg[t].pc = "done" /\
             lg[t].status \in {HTTP_200, HTTP_401, HTTP_503, HTTP_504})

\* the platform answered none of the three attempts, their threads are
\* still running, and login has returned 504
C20_Witness ==
    \E t \in Tasks :
        /\ lg[t].pc = "done" /\ lg[t].status = HTTP_504
        /\ lg[t].hist = <<"timeout", "timeout", "timeout">>
        /\ lg[t].abandoned = 3

====
